---------------------------- MODULE Spec2Model ----------------------------
(***************************************************************************)
(* Transaction classification, statistics and context selection of the    *)
(* financial-advisor data analyst:                                         *)
(*   enhanced_csv_tool.py  TransactionAnalyzer (construction, statistics,  *)
(*                         get_context_for_llm)                            *)
(*   csv_utils.py          answer_csv_question (direct answers)            *)
(*                                                                         *)
(* Text is a TLA+ string; a cell of a data frame is a tagged record:       *)
(*   [k |-> "null"]                 None / NaN / NaT                       *)
(*   [k |-> "str", s |-> "..."]     a Python str                           *)
(*   [k |-> "num", v |-> n]         a number, n in hundredths (paise)      *)
(*   [k |-> "date", y, m, d]        a Timestamp                            *)
(*   [k |-> "period", y, m]         a monthly Period                       *)
(***************************************************************************)
EXTENDS Integers, Sequences, FiniteSets, TLC

VARIABLES
    df,        \* the caller's DataFrame: [columns, rows]
    analyzer,  \* the TransactionAnalyzer built from df (or the error it raised)
    result,    \* what the last call returned (or raised)
    text,      \* the description handed to the two classifiers
    labels     \* what the two classifiers returned for text

vars == <<df, analyzer, result, text, labels>>

---------------------------------------------------------------------------
(* Cells *)

Null == [k |-> "null"]
Str(s) == [k |-> "str", s |-> s]
Num(v) == [k |-> "num", v |-> v]
isna(c) == c.k = "null"

\* Amounts are held in hundredths: Rupees(5000) is 5000.00
Rupees(n) == n * 100

---------------------------------------------------------------------------
(* Strings: str.lower, the `in` operator, str.replace *)

UpperCase == "ABCDEFGHIJKLMNOPQRSTUVWXYZ"
LowerCase == "abcdefghijklmnopqrstuvwxyz"
Digits == {"0", "1", "2", "3", "4", "5", "6", "7", "8", "9"}

CharAt(s, i) == SubSeq(s, i, i)

LowerChar(c) ==
    IF \E i \in 1..26 : CharAt(UpperCase, i) = c
    THEN CharAt(LowerCase, CHOOSE i \in 1..26 : CharAt(UpperCase, i) = c)
    ELSE c

RECURSIVE lower(_)
lower(s) ==
    IF Len(s) = 0 THEN ""
    ELSE LowerChar(CharAt(s, 1)) \o lower(SubSeq(s, 2, Len(s)))

\* sub in s
Contains(s, sub) ==
    \E i \in 1..(Len(s) - Len(sub) + 1) : SubSeq(s, i, i + Len(sub) - 1) = sub

StartsWith(s, sub) == Len(sub) <= Len(s) /\ SubSeq(s, 1, Len(sub)) = sub

\* s.replace(old, new): leftmost, non-overlapping occurrences
RECURSIVE replace(_, _, _)
replace(s, old, new) ==
    IF Len(s) = 0 THEN ""
    ELSE IF StartsWith(s, old)
         THEN new \o replace(SubSeq(s, Len(old) + 1, Len(s)), old, new)
         ELSE CharAt(s, 1) \o replace(SubSeq(s, 2, Len(s)), old, new)

\* any(word in s for word in words)
AnyIn(words, s) == \E i \in 1..Len(words) : Contains(s, words[i])

---------------------------------------------------------------------------
(* The Classifier *)

\* A plausible slip: the categories are tried in alphabetical order
TRANSACTION_CATEGORIES_sorted == <<
    [name |-> "BILL",          keywords |-> <<"bill", "utility", "electricity", "water", "gas", "internet">>],
    [name |-> "EMI",           keywords |-> <<"emi", "loan", "mortgage", "installment">>],
    [name |-> "ENTERTAINMENT", keywords |-> <<"movie", "restaurant", "dining", "cafe", "food">>],
    [name |-> "INCOME",        keywords |-> <<"salary", "interest", "credit", "received", "refund">>],
    [name |-> "INVESTMENT",    keywords |-> <<"mutual fund", "stocks", "shares", "investment", "dividend">>],
    [name |-> "PAYMENT",       keywords |-> <<"upi", "pay", "sent", "transfer", "trf">>],
    [name |-> "SHOPPING",      keywords |-> <<"purchase", "shopping", "mart", "store", "shop">>],
    [name |-> "SUBSCRIPTION",  keywords |-> <<"subscription", "netflix", "amazon prime", "spotify">>],
    [name |-> "TRAVEL",        keywords |-> <<"travel", "flight", "hotel", "bus", "train", "taxi", "uber">>],
    [name |-> "WITHDRAWAL",    keywords |-> <<"atm", "withdrawal", "cash">>] >>

TRANSACTION_CATEGORIES == <<
    [name |-> "PAYMENT",       keywords |-> <<"upi", "pay", "sent", "transfer", "trf">>],
    [name |-> "BILL",          keywords |-> <<"bill", "utility", "electricity", "water", "gas", "internet">>],
    [name |-> "INCOME",        keywords |-> <<"salary", "interest", "credit", "received", "refund">>],
    [name |-> "SHOPPING",      keywords |-> <<"purchase", "shopping", "mart", "store", "shop">>],
    [name |-> "ENTERTAINMENT", keywords |-> <<"movie", "restaurant", "dining", "cafe", "food">>],
    [name |-> "INVESTMENT",    keywords |-> <<"mutual fund", "stocks", "shares", "investment", "dividend">>],
    [name |-> "WITHDRAWAL",    keywords |-> <<"atm", "withdrawal", "cash">>],
    [name |-> "SUBSCRIPTION",  keywords |-> <<"subscription", "netflix", "amazon prime", "spotify">>],
    [name |-> "EMI",           keywords |-> <<"emi", "loan", "mortgage", "installment">>],
    [name |-> "TRAVEL",        keywords |-> <<"travel", "flight", "hotel", "bus", "train", "taxi", "uber">>] >>

type_indicators == <<
    [name |-> "BILL_PAYMENT", keywords |-> <<"billpay", "bill payment", "utility">>],
    [name |-> "SALARY",       keywords |-> <<"salary", "sal cr", "monthly pay">>],
    [name |-> "INTEREST",     keywords |-> <<"interest", "int.", "int cr">>],
    [name |-> "ATM",          keywords |-> <<"atm", "cash withdrawal">>],
    [name |-> "TRANSFER",     keywords |-> <<"transfer", "trf", "neft", "rtgs", "imps">>],
    [name |-> "INVESTMENT",   keywords |-> <<"investment", "mutual fund", "shares">>],
    [name |-> "REFUND",       keywords |-> <<"refund", "cashback", "return">>],
    [name |-> "LOAN",         keywords |-> <<"loan", "emi", "mortgage">>] >>

upi_received_words == <<"received", "credit", "credited">>

\* A plausible slip: the loop does not stop at the first match
LastMatch(rules, s) ==
    IF \E i \in 1..Len(rules) : AnyIn(rules[i].keywords, s)
    THEN LET i == CHOOSE j \in 1..Len(rules) :
                      /\ AnyIn(rules[j].keywords, s)
                      /\ \A h \in (j + 1)..Len(rules) : ~AnyIn(rules[h].keywords, s)
         IN  rules[i].name
    ELSE "OTHER"

\* for name, keywords in rules: if any(k in s for k in keywords): return name
\* ... return 'OTHER'
FirstMatch(rules, s) ==
    IF \E i \in 1..Len(rules) : AnyIn(rules[i].keywords, s)
    THEN LET i == CHOOSE j \in 1..Len(rules) :
                      /\ AnyIn(rules[j].keywords, s)
                      /\ \A h \in 1..(j - 1) : ~AnyIn(rules[h].keywords, s)
         IN  rules[i].name
    ELSE "OTHER"

\* A plausible slip: the generic type rules are tried before the UPI check
classify_transaction_upi_last(cell) ==
    IF isna(cell) THEN "UNKNOWN"
    ELSE LET s == lower(cell.s)
             t == FirstMatch(type_indicators, s)
         IN  IF t # "OTHER" THEN t
             ELSE IF Contains(s, "upi")
                  THEN IF AnyIn(upi_received_words, s) THEN "UPI_RECEIVED"
                       ELSE "UPI_PAYMENT"
                  ELSE "OTHER"

classify_transaction(cell) ==
    IF isna(cell) THEN "UNKNOWN"
    ELSE LET s == lower(cell.s)
         IN  IF Contains(s, "upi")
             THEN IF AnyIn(upi_received_words, s) THEN "UPI_RECEIVED"
                  ELSE "UPI_PAYMENT"
             ELSE FirstMatch(type_indicators, s)

\* A plausible slip: a missing description is treated as an empty one
categorize_transaction_no_unknown(cell) ==
    IF isna(cell) THEN "OTHER"
    ELSE FirstMatch(TRANSACTION_CATEGORIES, lower(cell.s))

categorize_transaction(cell) ==
    IF isna(cell) THEN "UNKNOWN"
    ELSE FirstMatch(TRANSACTION_CATEGORIES, lower(cell.s))

---------------------------------------------------------------------------
(* Numbers and dates read from text *)

DigitVal(c) == CHOOSE n \in 0..9 : CharAt("0123456789", n + 1) = c

IsDigits(s) == Len(s) > 0 /\ \A i \in 1..Len(s) : CharAt(s, i) \in Digits

RECURSIVE ToNat(_)
ToNat(s) ==
    IF Len(s) = 0 THEN 0
    ELSE ToNat(SubSeq(s, 1, Len(s) - 1)) * 10 + DigitVal(CharAt(s, Len(s)))

Positions(s, c) == {i \in 1..Len(s) : CharAt(s, i) = c}
SetMin(S) == CHOOSE x \in S : \A y \in S : x <= y
SetMax(S) == CHOOSE x \in S : \A y \in S : x >= y

\* The hundredths of a fraction written with one or two digits ("5" is 50)
Hundredths(frac) == IF Len(frac) = 1 THEN ToNat(frac) * 10 ELSE ToNat(frac)

\* float(s) for the plain decimal notation [+-]digits[.digits], at most two
\* fraction digits; every other text of the row pool is not a number
ParseDecimal(s) ==
    LET signed == Len(s) > 0 /\ CharAt(s, 1) \in {"-", "+"}
        sign == IF Len(s) > 0 /\ CharAt(s, 1) = "-" THEN -1 ELSE 1
        body == IF signed THEN SubSeq(s, 2, Len(s)) ELSE s
        dots == Positions(body, ".")
    IN  IF dots = {}
        THEN IF IsDigits(body) THEN Num(sign * ToNat(body) * 100) ELSE Null
        ELSE IF Cardinality(dots) > 1 THEN Null
        ELSE LET p == SetMin(dots)
                 whole == SubSeq(body, 1, p - 1)
                 frac == SubSeq(body, p + 1, Len(body))
             IN  IF IsDigits(whole) /\ IsDigits(frac) /\ Len(frac) <= 2
                 THEN Num(sign * (ToNat(whole) * 100 + Hundredths(frac)))
                 ELSE Null

\* A plausible slip: what is not a number counts as 0 instead of NaN
to_numeric_zero(cell) ==
    CASE cell.k = "num" -> cell
      [] cell.k = "str" -> IF isna(ParseDecimal(cell.s)) THEN Num(0) ELSE ParseDecimal(cell.s)
      [] OTHER -> Num(0)

\* pd.to_numeric(cell, errors='coerce')
to_numeric(cell) ==
    CASE cell.k = "num" -> cell
      [] cell.k = "str" -> ParseDecimal(cell.s)
      [] OTHER -> Null

Date(y, m, d) == [k |-> "date", y |-> y, m |-> m, d |-> d]
Period(y, m) == [k |-> "period", y |-> y, m |-> m]

IsLeap(y) == (y % 4 = 0 /\ y % 100 # 0) \/ y % 400 = 0

DaysInMonth(y, m) ==
    CASE m \in {4, 6, 9, 11} -> 30
      [] m = 2 -> IF IsLeap(y) THEN 29 ELSE 28
      [] OTHER -> 31

\* %y: 00..68 are 2000..2068, 69..99 are 1969..1999
PivotYear(yy) == IF yy <= 68 THEN 2000 + yy ELSE 1900 + yy

\* The text s read with the format '%d/%m/%y'; Null when it does not match
strptime_dmy(s) ==
    LET sl == Positions(s, "/")
    IN  IF Cardinality(sl) # 2 THEN Null
        ELSE LET p1 == SetMin(sl)
                 p2 == SetMax(sl)
                 ds == SubSeq(s, 1, p1 - 1)
                 ms == SubSeq(s, p1 + 1, p2 - 1)
                 ys == SubSeq(s, p2 + 1, Len(s))
             IN  IF /\ IsDigits(ds) /\ Len(ds) <= 2
                    /\ IsDigits(ms) /\ Len(ms) <= 2
                    /\ IsDigits(ys) /\ Len(ys) = 2
                    /\ ToNat(ms) \in 1..12
                    /\ ToNat(ds) \in 1..DaysInMonth(PivotYear(ToNat(ys)), ToNat(ms))
                 THEN Date(PivotYear(ToNat(ys)), ToNat(ms), ToNat(ds))
                 ELSE Null

\* pd.to_datetime(cell, format='%d/%m/%y', errors='coerce')
to_datetime(cell) == IF cell.k = "str" THEN strptime_dmy(cell.s) ELSE Null

\* Days since 1970-01-01
DaysFromCivil(y, m, d) ==
    LET yy == IF m <= 2 THEN y - 1 ELSE y
        era == yy \div 400
        yoe == yy - era * 400
        mp == (m + 9) % 12
        doy == (153 * mp + 2) \div 5 + d - 1
        doe == yoe * 365 + yoe \div 4 - yoe \div 100 + doy
    IN  era * 146097 + doe - 719468

Ordinal(date) == DaysFromCivil(date.y, date.m, date.d)

\* Series.dt.dayofweek: Monday is 0, Sunday is 6 (1970-01-01 was a Thursday)
dayofweek(date) == (Ordinal(date) + 3) % 7

DayNames == <<"Monday", "Tuesday", "Wednesday", "Thursday", "Friday",
              "Saturday", "Sunday">>

\* Series.dt.day_name()
day_name(cell) == IF isna(cell) THEN Null ELSE Str(DayNames[dayofweek(cell) + 1])

\* Series.dt.to_period('M')
to_period(cell) == IF isna(cell) THEN Null ELSE Period(cell.y, cell.m)

PeriodKey(p) == p.y * 12 + p.m

DigitChar(n) == CharAt("0123456789", n + 1)

TwoDigits(n) == DigitChar((n \div 10) % 10) \o DigitChar(n % 10)

\* Timestamp.strftime('%d/%m/%Y')
strftime(date) ==
    TwoDigits(date.d) \o "/" \o TwoDigits(date.m) \o "/"
        \o TwoDigits(date.y \div 100) \o TwoDigits(date.y % 100)

---------------------------------------------------------------------------
(* Sequences of numbers *)

abs(n) == IF n < 0 THEN -n ELSE n

\* The sequence <<F(1), ..., F(n)>>
RECURSIVE Map(_, _)
Map(F(_), n) == IF n = 0 THEN <<>> ELSE Append(Map(F, n - 1), F(n))

RECURSIVE SumSeq(_)
SumSeq(ns) == IF Len(ns) = 0 THEN 0 ELSE Head(ns) + SumSeq(Tail(ns))

\* The positions 1..Len(keys) in ascending order of key, equal keys in their
\* order of appearance (numpy sorts runs of up to 16 elements by insertion,
\* which is stable; MaxRows stays below that)
SortedIndices(keys) ==
    LET n == Len(keys)
        rank(i) == Cardinality({j \in 1..n : keys[j] < keys[i]
                                             \/ (keys[j] = keys[i] /\ j < i)}) + 1
        ranks == Map(rank, n)
    IN  Map(LAMBDA r : CHOOSE i \in 1..n : ranks[i] = r, n)

\* Series.mean() of the non-null cells: the pair (sum, count), NaN when empty
Ratio(num, den) == [k |-> "ratio", num |-> num, den |-> den]

NonNull(cells) == SelectSeq(cells, LAMBDA c : ~isna(c))

Values(cells) == Map(LAMBDA i : cells[i].v, Len(cells))

\* Series.sum(): NaN is skipped, the empty sum is 0
sum(cells) == SumSeq(Values(NonNull(cells)))

count(cells) == Len(NonNull(cells))

mean(cells) == IF count(cells) = 0 THEN Null ELSE Ratio(sum(cells), count(cells))

\* Ten times Series.quantile(0.9) of the numbers ns (linear interpolation
\* between the two nearest order statistics); NaN when there is none
quantile90(ns) ==
    LET n == Len(ns)
        order == SortedIndices(ns)
        sorted == Map(LAMBDA i : ns[order[i]], n)
        lo == (9 * (n - 1)) \div 10
        frac == (9 * (n - 1)) % 10
    IN  IF n = 0 THEN Null
        ELSE IF frac = 0 THEN Num(10 * sorted[lo + 1])
        ELSE Num(10 * sorted[lo + 1] + frac * (sorted[lo + 2] - sorted[lo + 1]))

---------------------------------------------------------------------------
(* Data frames *)

AllColumns == {"dateValue", "mentionText", "amount", "moneyValue"}

required_columns == <<"dateValue", "mentionText", "amount">>

DerivedColumns == {"parsed_date", "has_valid_date", "transaction_type",
                   "transaction_category", "month_year", "day_of_week",
                   "is_weekend", "is_credit", "is_high_value"}

\* df[column] as a sequence of cells
Column(rows, c) == Map(LAMBDA i : rows[i][c], Len(rows))

Project(rows, columns) ==
    Map(LAMBDA i : [c \in columns |-> rows[i][c]], Len(rows))

\* df[mask]: the rows at the positions where Keep holds, in order
Where(rows, Keep(_)) == SelectSeq(rows, Keep)

---------------------------------------------------------------------------
(* TransactionAnalyzer.__init__ *)

Raised(error, at) == [state |-> "raised", error |-> error, at |-> at]

\* [col for col in required_columns if col not in self.df.columns]
validate_data(frame) ==
    SelectSeq(required_columns, LAMBDA col : col \notin frame.columns)

\* The rows of self.df after _preprocess_data; "index" is the row label
preprocess_data(frame) ==
    LET n == Len(frame.rows)
        amounts == Map(LAMBDA i : to_numeric(frame.rows[i].amount), n)
        present == NonNull(amounts)
        q == quantile90(Map(LAMBDA i : abs(present[i].v), Len(present)))
        row(i) ==
            LET raw == frame.rows[i]
                parsed == to_datetime(raw.dateValue)
                a == amounts[i]
            IN  [index |-> i - 1,
                 parsed_date |-> parsed,
                 has_valid_date |-> ~isna(parsed),
                 transaction_type |-> classify_transaction(raw.mentionText),
                 transaction_category |-> categorize_transaction(raw.mentionText),
                 month_year |-> to_period(parsed),
                 day_of_week |-> day_name(parsed),
                 is_weekend |-> ~isna(parsed) /\ dayofweek(parsed) \in {5, 6},
                 amount |-> a,
                 is_credit |-> ~isna(a) /\ a.v > 0,
                 is_high_value |-> ~isna(a) /\ ~isna(q) /\ 10 * abs(a.v) > q.v]
                @@ raw
    IN  Map(row, n)

\* self.df['parsed_date'].min() / .max(): NaT is skipped, NaT when none is left
min_date(rows) ==
    LET dates == {rows[i].parsed_date : i \in 1..Len(rows)} \ {Null}
    IN  IF dates = {} THEN Null
        ELSE CHOOSE d \in dates : \A e \in dates : Ordinal(d) <= Ordinal(e)

max_date(rows) ==
    LET dates == {rows[i].parsed_date : i \in 1..Len(rows)} \ {Null}
    IN  IF dates = {} THEN Null
        ELSE CHOOSE d \in dates : \A e \in dates : Ordinal(d) >= Ordinal(e)

\* A plausible slip: the filter on amount > 0 is left out
total_credits_all(rows) == sum(Column(rows, "amount"))

\* self.df[self.df['amount'] > 0]['amount'].sum()
total_credits(rows) ==
    sum(Column(Where(rows, LAMBDA r : ~isna(r.amount) /\ r.amount.v > 0), "amount"))

\* self.df[self.df['amount'] < 0]['amount'].sum()
total_debits(rows) ==
    sum(Column(Where(rows, LAMBDA r : ~isna(r.amount) /\ r.amount.v < 0), "amount"))

\* self.df[column].value_counts().to_dict(): the labels present, each with its count
value_counts(rows, column) ==
    [l \in {rows[i][column] : i \in 1..Len(rows)} |->
        Cardinality({i \in 1..Len(rows) : rows[i][column] = l})]

\* The keys of self.df.groupby(column): the non-null values present
Groups(rows, column) == {rows[i][column] : i \in 1..Len(rows)} \ {Null}

Group(rows, column, key) == Where(rows, LAMBDA r : r[column] = key)

\* groupby('month_year')['amount'].agg(['count', 'sum', 'mean']).to_dict()
monthly_averages(rows) ==
    [stat \in {"count", "sum", "mean"} |->
        [p \in Groups(rows, "month_year") |->
            LET cells == Column(Group(rows, "month_year", p), "amount")
            IN  CASE stat = "count" -> count(cells)
                  [] stat = "sum" -> sum(cells)
                  [] OTHER -> mean(cells)]]

weekend_vs_weekday(rows) ==
    [weekend_avg |-> mean(Column(Where(rows, LAMBDA r : r.is_weekend), "amount")),
     weekday_avg |-> mean(Column(Where(rows, LAMBDA r : ~r.is_weekend), "amount"))]

\* _calculate_statistics; NaT.strftime raises ValueError
calculate_statistics(rows) ==
    IF isna(min_date(rows)) THEN Raised("ValueError", "_calculate_statistics")
    ELSE [total_transactions |-> Len(rows),
          date_range |-> [start |-> strftime(min_date(rows)),
                          end |-> strftime(max_date(rows))],
          total_credits |-> total_credits(rows),
          total_debits |-> total_debits(rows),
          transaction_types |-> value_counts(rows, "transaction_type"),
          categories |-> value_counts(rows, "transaction_category"),
          monthly_averages |-> monthly_averages(rows),
          weekend_vs_weekday |-> weekend_vs_weekday(rows)]

\* TransactionAnalyzer(frame): the object, or the exception __init__ raised
TransactionAnalyzer(frame) ==
    IF Len(validate_data(frame)) > 0 THEN Raised("ValueError", "validate_data")
    ELSE LET rows == preprocess_data(frame)
             statistics == calculate_statistics(rows)
         IN  IF "state" \in DOMAIN statistics THEN statistics
             ELSE [state |-> "ok",
                   df |-> [columns |-> frame.columns \cup DerivedColumns, rows |-> rows],
                   statistics |-> statistics]

---------------------------------------------------------------------------
(* The data frames the caller may hold *)

NoDataFrame == [columns |-> {}, rows |-> <<>>]
NoAnalyzer == [state |-> "none"]
NoResult == [op |-> "none"]

Row(date, description, amount) ==
    [dateValue |-> date, mentionText |-> description, amount |-> amount,
     moneyValue |-> amount]

\* Rows 1..4 are the rows of the test fixture sample_transactions
RowPool == <<
    Row(Str("01/06/25"),   Str("UPI payment to grocery store"), Num(Rupees(-500))),
    Row(Str("02/06/25"),   Str("Salary credit"),                Num(Rupees(5000))),
    Row(Str("03/06/25"),   Str("Netflix subscription"),         Num(Rupees(-199))),
    Row(Str("04/06/25"),   Str("ATM withdrawal"),               Num(Rupees(-1000))),
    Row(Str("2025-07-05"), Str("Refund 1,234.56 received"),     Str("abc")),
    Row(Null,              Str("UPI Salary received"),          Num(Rupees(5000))),
    Row(Str("29/02/24"),   Str("Electricity bill 12.50"),       Str("-199.00")),
    Row(Str("15/07/23"),   Null,                                Null),
    Row(Str("31/12/26"),   Str(""),                             Num(0)),
    Row(Str("05/07/25"),   Str("Movie tickets"),                Num(Rupees(-500))) >>

\* Frames of up to MaxShortRows rows start anywhere in the pool; the long
\* frames have MaxRows rows, more than a sample holds
MaxShortRows == 2
MaxRows == 11
FixtureRows == 4

Strides == {1, 3}

\* Where the frames that lack a column start
LackingStarts == {1, 5}

\* n rows of the pool, taken from row `start` on in steps of `stride`
Window(start, n, stride) ==
    Map(LAMBDA i : RowPool[((start - 1 + (i - 1) * stride) % Len(RowPool)) + 1], n)

DataFrames ==
    {[columns |-> AllColumns, rows |-> Window(start, n, stride)] :
        start \in 1..Len(RowPool), n \in 0..MaxShortRows, stride \in Strides}
    \cup
    {[columns |-> AllColumns, rows |-> Window(start, n, 1)] :
        start \in 1..Len(RowPool), n \in {FixtureRows, MaxRows}}
    \cup
    {[columns |-> AllColumns \ {c},
      rows |-> Project(Window(start, n, 1), AllColumns \ {c})] :
        c \in AllColumns, start \in LackingStarts, n \in 0..MaxShortRows}

Init ==
    /\ df \in DataFrames
    /\ analyzer = NoAnalyzer
    /\ result = NoResult
    /\ text = Null
    /\ labels = Null

\* analyzer = TransactionAnalyzer(df)
Construct ==
    /\ result = NoResult
    /\ analyzer.state = "none"
    /\ analyzer' = TransactionAnalyzer(df)
    /\ UNCHANGED <<df, result, text, labels>>

---------------------------------------------------------------------------
(* TransactionAnalyzer.get_context_for_llm *)

\* sample.head(10) and nlargest(5, ...) / nsmallest(5, ...)
SampleLimit == 10
RankLimit == 5

\* A plausible slip: no truncation
head_all(rows, n) == rows

\* DataFrame.head(n)
head(rows, n) == SubSeq(rows, 1, IF n < Len(rows) THEN n ELSE Len(rows))

Pick(rows, order) == Map(LAMBDA i : rows[order[i]], Len(order))

\* rows.sort_values('parsed_date', ascending=False): NaT last
sort_values_date_desc(rows) ==
    LET dated == Where(rows, LAMBDA r : ~isna(r.parsed_date))
        undated == Where(rows, LAMBDA r : isna(r.parsed_date))
        keys == Map(LAMBDA i : -Ordinal(dated[i].parsed_date), Len(dated))
    IN  Pick(dated, SortedIndices(keys)) \o undated

\* rows.nlargest(n, 'amount'): largest first, equal amounts in their order in
\* rows, rows without an amount after the others
nlargest(rows, n) ==
    LET valued == Where(rows, LAMBDA r : ~isna(r.amount))
        unvalued == Where(rows, LAMBDA r : isna(r.amount))
        keys == Map(LAMBDA i : -valued[i].amount.v, Len(valued))
    IN  head(Pick(valued, SortedIndices(keys)) \o unvalued, n)

\* rows.nsmallest(n, 'amount')
nsmallest(rows, n) ==
    LET valued == Where(rows, LAMBDA r : ~isna(r.amount))
        unvalued == Where(rows, LAMBDA r : isna(r.amount))
        keys == Map(LAMBDA i : valued[i].amount.v, Len(valued))
    IN  head(Pick(valued, SortedIndices(keys)) \o unvalued, n)

\* self.df['month_year'].max(): NaT when no row has a month
max_month(rows) ==
    LET months == {rows[i].month_year : i \in 1..Len(rows)} \ {Null}
    IN  IF months = {} THEN Null
        ELSE CHOOSE p \in months : \A o \in months : PeriodKey(p) >= PeriodKey(o)

\* if 'recent' ...: ... elif 'last month' ...: ...
time_filter(rows, q) ==
    IF Contains(q, "recent") THEN sort_values_date_desc(rows)
    ELSE IF Contains(q, "last month")
         THEN Where(rows, LAMBDA r : ~isna(r.month_year) /\ r.month_year = max_month(rows))
         ELSE rows

\* The positions of the categories whose lower-cased name is in the question
CategoriesIn(q) ==
    {i \in 1..Len(TRANSACTION_CATEGORIES) :
        Contains(q, lower(TRANSACTION_CATEGORIES[i].name))}

\* for category in TRANSACTION_CATEGORIES: if category.lower() in q:
\*     sample = self.df[self.df['transaction_category'] == category]
\* Every match assigns sample anew, from self.df: the last match stands
category_filter(rows, sample, q) ==
    IF CategoriesIn(q) = {} THEN sample
    ELSE LET category == TRANSACTION_CATEGORIES[SetMax(CategoriesIn(q))].name
         IN  Where(rows, LAMBDA r : r.transaction_category = category)

\* if 'highest' or 'top' ...: nlargest elif 'lowest' ...: nsmallest
value_filter(sample, q) ==
    IF Contains(q, "highest") \/ Contains(q, "top") THEN nlargest(sample, RankLimit)
    ELSE IF Contains(q, "lowest") THEN nsmallest(sample, RankLimit)
    ELSE sample

Labels(rows, column) == {rows[i][column] : i \in 1..Len(rows)}

patterns(rows) ==
    [monthly_trend |->
        [p \in Groups(rows, "month_year") |->
            sum(Column(Group(rows, "month_year", p), "amount"))],
     category_distribution |->
        [stat \in {"count", "sum"} |->
            [c \in Labels(rows, "transaction_category") |->
                LET cells == Column(Group(rows, "transaction_category", c), "amount")
                IN  IF stat = "count" THEN count(cells) ELSE sum(cells)]],
     day_of_week_pattern |->
        [d \in Groups(rows, "day_of_week") |->
            mean(Column(Group(rows, "day_of_week", d), "amount"))]]

\* DataFrame.to_dict(orient='records'): the columns of each row, not its label
to_dict_records(rows, columns) == Project(rows, columns)

\* The dict get_context_for_llm returns for the analyzer `an`. With string
\* descriptions and a constructed analyzer nothing in the try block raises.
get_context_for_llm(an, question) ==
    LET q == lower(question)
        rows == an.df.rows
        sample == value_filter(category_filter(rows, time_filter(rows, q), q), q)
        relevant == to_dict_records(head(sample, SampleLimit), an.df.columns)
    IN  IF Contains(q, "pattern") \/ Contains(q, "trend")
        THEN [statistics |-> an.statistics, question |-> question,
              patterns |-> patterns(rows), relevant_transactions |-> relevant]
        ELSE [statistics |-> an.statistics, question |-> question,
              relevant_transactions |-> relevant]

---------------------------------------------------------------------------
(* csv_utils.answer_csv_question *)

IsMoneyChar(c) == c \in Digits \cup {","}

\* The length of the longest prefix of s made of digits and commas
RunLength(s) ==
    IF \A i \in 1..Len(s) : IsMoneyChar(CharAt(s, i)) THEN Len(s)
    ELSE SetMin({i \in 1..Len(s) : ~IsMoneyChar(CharAt(s, i))}) - 1

\* sum(float(m.replace(",", "")) for m in re.findall(r"[\d,]+\.\d{2}", s)),
\* in hundredths. A match is a maximal run of digits and commas, a dot and two
\* digits; the scan goes on after it.
RECURSIVE findall_money(_)
findall_money(s) ==
    IF Len(s) = 0 THEN 0
    ELSE LET n == RunLength(s)
         IN  IF n = 0 THEN findall_money(SubSeq(s, 2, Len(s)))
             ELSE IF /\ Len(s) >= n + 3
                     /\ CharAt(s, n + 1) = "."
                     /\ CharAt(s, n + 2) \in Digits
                     /\ CharAt(s, n + 3) \in Digits
                  THEN ToNat(replace(SubSeq(s, 1, n), ",", "")) * 100
                           + ToNat(SubSeq(s, n + 2, n + 3))
                           + findall_money(SubSeq(s, n + 4, Len(s)))
                  ELSE findall_money(SubSeq(s, n + 1, Len(s)))

\* extract_money(text): 0.0 for a missing text
extract_money(cell) == IF isna(cell) THEN Num(0) ELSE Num(findall_money(cell.s))

fillna0(cell) == IF isna(cell) THEN Num(0) ELSE cell

\* A plausible slip: the text amounts are left out
money_structured_only(frame) ==
    Map(LAMBDA i : to_numeric(frame.rows[i].moneyValue), Len(frame.rows))

\* The series `money`: the structured amount, plus the amounts found in the
\* description when there is a mentionText column
money(frame) ==
    Map(LAMBDA i :
            LET structured == to_numeric(frame.rows[i].moneyValue)
            IN  IF "mentionText" \in frame.columns
                THEN Num(fillna0(structured).v + extract_money(frame.rows[i].mentionText).v)
                ELSE structured,
        Len(frame.rows))

RECURSIVE NatStr(_)
NatStr(n) == IF n < 10 THEN DigitChar(n) ELSE NatStr(n \div 10) \o DigitChar(n % 10)

ThreeDigits(n) == DigitChar(n \div 100) \o TwoDigits(n % 100)

\* f"{n:,}"
RECURSIVE Thousands(_)
Thousands(n) ==
    IF n < 1000 THEN NatStr(n)
    ELSE Thousands(n \div 1000) \o "," \o ThreeDigits(n % 1000)

\* f"{v:,.2f}", v in hundredths
format_money(v) ==
    (IF v < 0 THEN "-" ELSE "") \o Thousands(abs(v) \div 100) \o "."
        \o TwoDigits(abs(v) % 100)

\* question.lower().replace("spent", "spend").replace("so far", "").replace("so dar", "")
normalize(question) ==
    replace(replace(replace(lower(question), "spent", "spend"), "so far", ""), "so dar", "")

\* The rupee sign U+20B9, written in ASCII
RupeeSign == "Rs"

TotalAnswer(total) ==
    "Based on your transaction records, the total money value is: **"
        \o RupeeSign \o format_money(total) \o "** INR.\n\n"
        \o "This includes all amounts found in both structured and unstructured fields of your CSV. "
        \o "If you need a breakdown or more details, just ask!"

CountAnswer(n) ==
    "You have **" \o Thousands(n) \o "** transactions recorded in your CSV.\n\n"
        \o "Let me know if you want to analyze a specific type or time period!"

NoYearsAnswer ==
    "Sorry, I couldn't extract years from your data. Please ensure 'dateValue' column is present and formatted as DD/MM/YY."

FallbackAnswer ==
    "I'm sorry, I couldn't understand your question. "
        \o "Please ask about totals, counts, or specify a column or type of transaction you want to analyze."

Year(n) == [k |-> "int", v |-> n]

\* extract_year(val): datetime.strptime(str(val), "%d/%m/%y").year, None on failure
extract_year(cell) ==
    LET parsed == IF cell.k = "str" THEN strptime_dmy(cell.s) ELSE Null
    IN  IF isna(parsed) THEN Null ELSE Year(parsed.y)

\* df["_year"] = years
with_year(frame) ==
    [columns |-> frame.columns \cup {"_year"},
     rows |-> Map(LAMBDA i :
                      [c \in {"_year"} |-> extract_year(frame.rows[i].dateValue)]
                          @@ frame.rows[i],
                  Len(frame.rows))]

\* A plausible slip: every year is listed, not the three most recent
recent_years_unlimited(frame) ==
    LET present == {frame.rows[i]["_year"].v :
                        i \in {j \in 1..Len(frame.rows) : ~isna(frame.rows[j]["_year"])}}
        RECURSIVE Descending(_)
        Descending(S) == IF S = {} THEN <<>>
                         ELSE <<SetMax(S)>> \o Descending(S \ {SetMax(S)})
    IN  Descending(present)

\* sorted([y for y in years.unique() if ...], reverse=True)[:3]
recent_years(frame) ==
    LET present == {frame.rows[i]["_year"].v :
                        i \in {j \in 1..Len(frame.rows) : ~isna(frame.rows[j]["_year"])}}
        RECURSIVE Descending(_)
        Descending(S) == IF S = {} THEN <<>>
                         ELSE <<SetMax(S)>> \o Descending(S \ {SetMax(S)})
    IN  head(Descending(present), 3)

\* The years are floats as soon as one of them is missing (apply() turns a
\* column of ints and None into float64), and print as "2025.0"
YearLabel(frame, y) ==
    IF \E i \in 1..Len(frame.rows) : isna(frame.rows[i]["_year"])
    THEN NatStr(y) \o ".0"
    ELSE NatStr(y)

year_sum(frame, y) ==
    LET of_year == Where(frame.rows, LAMBDA r : ~isna(r["_year"]) /\ r["_year"].v = y)
        structured == sum(Map(LAMBDA i : to_numeric(of_year[i].moneyValue), Len(of_year)))
    IN  IF "mentionText" \in frame.columns
        THEN structured
                 + sum(Map(LAMBDA i : extract_money(of_year[i].mentionText), Len(of_year)))
        ELSE structured

RECURSIVE JoinLines(_)
JoinLines(lines) ==
    IF Len(lines) = 0 THEN ""
    ELSE IF Len(lines) = 1 THEN lines[1]
    ELSE lines[1] \o "\n" \o JoinLines(Tail(lines))

breakdown(frame) ==
    LET years == recent_years(frame)
    IN  Map(LAMBDA i : YearLabel(frame, years[i]) \o ": **" \o RupeeSign
                           \o format_money(year_sum(frame, years[i])) \o "** INR",
            Len(years))

PerYearAnswer(frame) ==
    "Here is your spending per year for the last 3 years (from your CSV):\n\n"
        \o JoinLines(breakdown(frame))
        \o "\n\nLet me know if you want a different breakdown or more details!"

IsTotalQuestion(q) ==
    \/ Contains(q, "total") \/ Contains(q, "sum") \/ Contains(q, "spend")
    \/ Contains(q, "amount") \/ Contains(q, "inr")

\* A plausible slip: the last-three phrase is not asked for
IsPerYearQuestion_any(q) ==
    Contains(q, "per year") \/ Contains(q, "yearly") \/ Contains(q, "each year")

IsPerYearQuestion(q) ==
    /\ (Contains(q, "per year") \/ Contains(q, "yearly") \/ Contains(q, "each year"))
    /\ (Contains(q, "last 3") \/ Contains(q, "past 3") \/ Contains(q, "three year"))

\* answer_csv_question(frame, question): what it returns or raises, and the
\* frame as the call leaves it
answer_csv_question(frame, question) ==
    IF "moneyValue" \notin frame.columns
    THEN [raised |-> TRUE, error |-> "KeyError", df |-> frame]
    ELSE LET q == normalize(question)
         IN  CASE IsTotalQuestion(q) ->
                    [raised |-> FALSE, value |-> TotalAnswer(sum(money(frame))), df |-> frame]
               [] ~IsTotalQuestion(q) /\ Contains(q, "count") ->
                    [raised |-> FALSE, value |-> CountAnswer(Len(frame.rows)), df |-> frame]
               [] ~IsTotalQuestion(q) /\ ~Contains(q, "count") /\ IsPerYearQuestion(q) ->
                    IF "dateValue" \in frame.columns
                    THEN [raised |-> FALSE, value |-> PerYearAnswer(with_year(frame)),
                          df |-> with_year(frame)]
                    ELSE [raised |-> FALSE, value |-> NoYearsAnswer, df |-> frame]
               [] OTHER ->
                    [raised |-> FALSE, value |-> FallbackAnswer, df |-> frame]

---------------------------------------------------------------------------
(* The calls *)

Questions == {
    "Show me recent transactions",
    "What's my total spend?",
    "Tell me a joke",
    "How much have I spent so far",
    "Transaction count",
    "Spending per year for the last 3 years",
    "Yearly breakdown for the past 3 years",
    "Show me my highest value transactions",
    "Lowest bill last month",
    "Recent subscription payments, top",
    "What are my spending patterns?",
    "Recent ones from last month",
    "Each year overview",
    "Top income last month",
    "Recent top transactions" }

\* context = analyzer.get_context_for_llm(question)
GetContext(question) ==
    /\ result = NoResult
    /\ analyzer.state = "ok"
    /\ result' = [op |-> "get_context_for_llm", question |-> question, raised |-> FALSE,
                  value |-> get_context_for_llm(analyzer, question)]
    /\ UNCHANGED <<df, analyzer, text, labels>>

\* answer = answer_csv_question(df, question)
Answer(question) ==
    LET r == answer_csv_question(df, question)
    IN  /\ result = NoResult
        /\ result' = IF r.raised
                     THEN [op |-> "answer_csv_question", question |-> question,
                           raised |-> TRUE, error |-> r.error]
                     ELSE [op |-> "answer_csv_question", question |-> question,
                           raised |-> FALSE, value |-> r.value]
        /\ df' = r.df
        /\ UNCHANGED <<analyzer, text, labels>>

\* The caller is done with what the call returned; the next call may start
Return ==
    /\ result # NoResult
    /\ result' = NoResult
    /\ UNCHANGED <<df, analyzer, text, labels>>

Next ==
    \/ Construct
    \/ \E question \in Questions : GetContext(question)
    \/ \E question \in Questions : Answer(question)
    \/ Return

Spec == Init /\ [][Next]_vars

---------------------------------------------------------------------------
(* A caller that writes into the dict get_context_for_llm returned.        *)
(* context['statistics'] is the analyzer's own statistics dict (the same   *)
(* object, not a copy), so a write through it is a write to                *)
(* analyzer.statistics; context['relevant_transactions'] is a list that    *)
(* to_dict built for this call.                                            *)

PayloadWrites == {"statistics", "relevant_transactions"}

\* context['statistics']['total_transactions'] = 0, or
\* context['relevant_transactions'].clear()
ModifyPayload(key) ==
    /\ result.op = "get_context_for_llm"
    /\ IF key = "statistics"
       THEN LET written == [result.value.statistics EXCEPT !.total_transactions = 0]
            IN  /\ result' = [result EXCEPT !.value.statistics = written]
                /\ analyzer' = [analyzer EXCEPT !.statistics = written]
       ELSE /\ result' = [result EXCEPT !.value.relevant_transactions = <<>>]
            /\ analyzer' = analyzer
    /\ UNCHANGED <<df, text, labels>>

NextCaller ==
    \/ Construct
    \/ \E question \in Questions : GetContext(question)
    \/ \E key \in PayloadWrites : ModifyPayload(key)
    \/ Return

SpecCaller == Init /\ [][NextCaller]_vars

---------------------------------------------------------------------------
(* Descriptions handed to the classifiers: up to MaxWords words of the    *)
(* vocabulary joined by blanks, and the missing description.              *)

MaxWords == 2

Vocabulary == <<"UPI", "received", "Credited", "Salary", "bill payment", "loan",
                "ATM", "Refund", "netflix", "lunch", "occupied", "premium",
                "TRF", "int.", "shares", "Cash", "withdrawal", "store",
                "movie", "taxi", "water">>

RECURSIVE Join(_)
Join(ws) ==
    IF Len(ws) = 0 THEN ""
    ELSE IF Len(ws) = 1 THEN Vocabulary[ws[1]]
    ELSE Vocabulary[ws[1]] \o " " \o Join(Tail(ws))

Descriptions ==
    {Null} \cup
    {Str(Join(ws)) : ws \in UNION {[1..n -> 1..Len(Vocabulary)] : n \in 0..MaxWords}}

InitClassify ==
    /\ text \in Descriptions
    /\ labels = Null
    /\ df = NoDataFrame
    /\ analyzer = NoAnalyzer
    /\ result = NoResult

\* df['mentionText'].apply(self._classify_transaction) and
\* df['mentionText'].apply(self._categorize_transaction), on one description
Classify ==
    /\ isna(labels)
    /\ labels' = [k |-> "labels",
                  transaction_type |-> classify_transaction(text),
                  transaction_category |-> categorize_transaction(text)]
    /\ UNCHANGED <<text, df, analyzer, result>>

NextClassify == Classify

SpecClassify == InitClassify /\ [][NextClassify]_vars

---------------------------------------------------------------------------
(* C2: a description containing "upi" is UPI_RECEIVED when it also holds   *)
(* one of "received", "credit", "credited" and UPI_PAYMENT otherwise,      *)
(* whatever other type keywords (salary, loan, atm, ...) it holds.         *)

HasAny(s, set) == \E w \in set : Contains(s, w)

C2_UpiFirst ==
    (~isna(labels) /\ ~isna(text) /\ Contains(lower(text.s), "upi")) =>
        /\ labels.transaction_type \in {"UPI_RECEIVED", "UPI_PAYMENT"}
        /\ labels.transaction_type = "UPI_RECEIVED"
               <=> HasAny(lower(text.s), {"received", "credit", "credited"})

C2_Witness ==
    /\ ~isna(labels) /\ ~isna(text)
    /\ Contains(lower(text.s), "upi") /\ Contains(lower(text.s), "salary")
    /\ labels.transaction_type = "UPI_PAYMENT"

---------------------------------------------------------------------------
(* C1: the payload of get_context_for_llm carries at most 10 sample      *)
(* records, whatever the size of the data frame and whatever signals the  *)
(* question sets.                                                          *)

IsContext == result.op = "get_context_for_llm"
IsAnswer == result.op = "answer_csv_question"

C1_SampleAtMostTen ==
    IsContext => Len(result.value.relevant_transactions) <= 10

\* A frame of more than 10 rows was sampled and exactly 10 came back
C1_Witness ==
    /\ IsContext
    /\ Len(analyzer.df.rows) > 10
    /\ Len(result.value.relevant_transactions) = 10

---------------------------------------------------------------------------
(* C3: after construction every record has one transaction_type and one   *)
(* transaction_category of the fixed enums; both are UNKNOWN for a missing *)
(* description; a label is OTHER when the description is present (the      *)
(* empty string too) and holds no keyword of that pass; the counts by type *)
(* and the counts by category each sum to total_transactions.              *)

TransactionTypes ==
    {"UNKNOWN", "OTHER", "UPI_RECEIVED", "UPI_PAYMENT", "BILL_PAYMENT", "SALARY",
     "INTEREST", "ATM", "TRANSFER", "INVESTMENT", "REFUND", "LOAN"}

CategoryNames ==
    {"UNKNOWN", "OTHER", "PAYMENT", "BILL", "INCOME", "SHOPPING", "ENTERTAINMENT",
     "INVESTMENT", "WITHDRAWAL", "SUBSCRIPTION", "EMI", "TRAVEL"}

KeywordsOf(rules) == UNION {{rules[i].keywords[j] : j \in 1..Len(rules[i].keywords)} :
                                i \in 1..Len(rules)}

RECURSIVE SumOver(_, _)
SumOver(f, S) ==
    IF S = {} THEN 0
    ELSE LET x == CHOOSE y \in S : TRUE IN f[x] + SumOver(f, S \ {x})

C3_EveryRecordLabelled ==
    analyzer.state = "ok" =>
        /\ \A i \in 1..Len(analyzer.df.rows) :
              LET r == analyzer.df.rows[i]
              IN  /\ r.transaction_type \in TransactionTypes
                  /\ r.transaction_category \in CategoryNames
                  /\ isna(r.mentionText) =>
                        /\ r.transaction_type = "UNKNOWN"
                        /\ r.transaction_category = "UNKNOWN"
                  /\ ~isna(r.mentionText) =>
                        /\ r.transaction_type # "UNKNOWN"
                        /\ r.transaction_category # "UNKNOWN"
                        /\ ~HasAny(lower(r.mentionText.s),
                                   KeywordsOf(type_indicators) \cup {"upi"})
                               => r.transaction_type = "OTHER"
                        /\ ~HasAny(lower(r.mentionText.s), KeywordsOf(TRANSACTION_CATEGORIES))
                               => r.transaction_category = "OTHER"
        /\ SumOver(analyzer.statistics.transaction_types,
                   DOMAIN analyzer.statistics.transaction_types)
               = analyzer.statistics.total_transactions
        /\ SumOver(analyzer.statistics.categories, DOMAIN analyzer.statistics.categories)
               = analyzer.statistics.total_transactions

\* An analyzer holding a record without description and one with the empty one
C3_Witness ==
    /\ analyzer.state = "ok"
    /\ \E i \in 1..Len(analyzer.df.rows) :
          /\ isna(analyzer.df.rows[i].mentionText)
          /\ analyzer.df.rows[i].transaction_category = "UNKNOWN"
    /\ \E i \in 1..Len(analyzer.df.rows) :
          /\ analyzer.df.rows[i].mentionText = Str("")
          /\ analyzer.df.rows[i].transaction_type = "OTHER"
          /\ analyzer.df.rows[i].transaction_category = "OTHER"

---------------------------------------------------------------------------
(* C4: total_credits is the sum of the amounts of exactly the records     *)
(* whose is_credit flag is set, and the flag is set exactly for amount > 0 *)
(* (a negative, zero or missing amount adds nothing).                      *)

RECURSIVE CreditSum(_, _)
CreditSum(rows, n) ==
    IF n = 0 THEN 0
    ELSE CreditSum(rows, n - 1) + (IF rows[n].is_credit THEN rows[n].amount.v ELSE 0)

C4_TotalCreditsIsCreditSum ==
    analyzer.state = "ok" =>
        /\ \A i \in 1..Len(analyzer.df.rows) :
              analyzer.df.rows[i].is_credit
                  <=> (~isna(analyzer.df.rows[i].amount) /\ analyzer.df.rows[i].amount.v > 0)
        /\ analyzer.statistics.total_credits
               = CreditSum(analyzer.df.rows, Len(analyzer.df.rows))

\* Credits next to a debit, a zero amount and a missing amount
C4_Witness ==
    /\ analyzer.state = "ok"
    /\ analyzer.statistics.total_credits > 0
    /\ \E i \in 1..Len(analyzer.df.rows) :
          ~isna(analyzer.df.rows[i].amount) /\ analyzer.df.rows[i].amount.v < 0
    /\ \E i \in 1..Len(analyzer.df.rows) : analyzer.df.rows[i].amount = Num(0)
    /\ \E i \in 1..Len(analyzer.df.rows) : isna(analyzer.df.rows[i].amount)

---------------------------------------------------------------------------
(* C5: a row whose amount is not a number (or is missing) gets a null      *)
(* amount, is no credit, adds nothing to total_credits and total_debits,   *)
(* and is counted in total_transactions; the construction never fails      *)
(* because of it (it fails only for a missing column or for want of any    *)
(* parseable date).                                                        *)

RequiredOfAnalyzer == {"dateValue", "mentionText", "amount"}

\* The raw cell is missing, empty, or holds a character no number has
NonNumeric(cell) ==
    \/ isna(cell)
    \/ /\ cell.k = "str"
       /\ \/ cell.s = ""
          \/ \E i \in 1..Len(cell.s) : CharAt(cell.s, i) \notin Digits \cup {".", "-", "+"}

\* The sum of the amounts of the rows 1..n whose raw amount is a number and
\* whose amount has the given sign
RECURSIVE NumericSum(_, _, _, _)
NumericSum(raw, rows, sign, n) ==
    IF n = 0 THEN 0
    ELSE NumericSum(raw, rows, sign, n - 1)
             + (IF ~NonNumeric(raw[n].amount) /\ sign * rows[n].amount.v > 0
                THEN rows[n].amount.v ELSE 0)

C5_NonNumericAmountIsNull ==
    /\ analyzer.state = "ok" =>
          /\ analyzer.statistics.total_transactions = Len(df.rows)
          /\ \A i \in 1..Len(df.rows) :
                NonNumeric(df.rows[i].amount) =>
                    /\ isna(analyzer.df.rows[i].amount)
                    /\ ~analyzer.df.rows[i].is_credit
          /\ analyzer.statistics.total_credits
                 = NumericSum(df.rows, analyzer.df.rows, 1, Len(df.rows))
          /\ analyzer.statistics.total_debits
                 = NumericSum(df.rows, analyzer.df.rows, -1, Len(df.rows))
    /\ analyzer.state = "raised" =>
          \/ ~(RequiredOfAnalyzer \subseteq df.columns)
          \/ \A i \in 1..Len(df.rows) : isna(to_datetime(df.rows[i].dateValue))

\* An analyzer was built from a frame holding the amount "abc"
C5_Witness ==
    /\ analyzer.state = "ok"
    /\ \E i \in 1..Len(df.rows) :
          /\ df.rows[i].amount = Str("abc")
          /\ isna(analyzer.df.rows[i].amount)
    /\ analyzer.statistics.total_credits > 0
    /\ analyzer.statistics.total_debits < 0

---------------------------------------------------------------------------
(* C6: for a non-empty frame with the required columns, whichever rows     *)
(* (one, several, all) have a date that does not read as DD/MM/YY, the     *)
(* construction succeeds: those rows get a null parsed_date and            *)
(* month_year, are counted in total_transactions, and the date range is    *)
(* taken over the other rows.                                              *)

Unparseable(cell) == isna(to_datetime(cell))

C6_BadDatesNeverFailTheLoad ==
    (/\ analyzer.state # "none"
     /\ RequiredOfAnalyzer \subseteq df.columns
     /\ Len(df.rows) > 0
     /\ \E i \in 1..Len(df.rows) : Unparseable(df.rows[i].dateValue)) =>
        /\ analyzer.state = "ok"
        /\ analyzer.statistics.total_transactions = Len(df.rows)
        /\ \A i \in 1..Len(df.rows) :
              Unparseable(df.rows[i].dateValue) =>
                  /\ isna(analyzer.df.rows[i].parsed_date)
                  /\ isna(analyzer.df.rows[i].month_year)

---------------------------------------------------------------------------
(* C7: aggregating an empty frame (required columns, no rows) does not     *)
(* raise: it gives total_transactions = 0, zero sums, empty count maps     *)
(* and null date-range bounds.                                             *)

C7_EmptyFrameGivesZeroSummary ==
    (/\ analyzer.state # "none"
     /\ RequiredOfAnalyzer \subseteq df.columns
     /\ Len(df.rows) = 0) =>
        /\ analyzer.state = "ok"
        /\ analyzer.statistics.total_transactions = 0
        /\ analyzer.statistics.total_credits = 0
        /\ analyzer.statistics.total_debits = 0
        /\ DOMAIN analyzer.statistics.transaction_types = {}
        /\ DOMAIN analyzer.statistics.categories = {}
        /\ analyzer.statistics.date_range = [start |-> Null, end |-> Null]

---------------------------------------------------------------------------
(* C8: a frame that lacks a required column (date, description, amount)    *)
(* is rejected with an error by every entry point, before anything is      *)
(* classified or answered: the constructor raises in validate_data, and    *)
(* answer_csv_question raises instead of returning an answer.              *)

\* answer_csv_question reads the amount from the column moneyValue
RequiredOfAnswer == {"dateValue", "mentionText", "moneyValue"}

C8_MissingColumnIsRejected ==
    /\ (analyzer.state # "none" /\ ~(RequiredOfAnalyzer \subseteq df.columns)) =>
          analyzer = Raised("ValueError", "validate_data")
    /\ (IsAnswer /\ ~(RequiredOfAnswer \subseteq df.columns)) => result.raised

---------------------------------------------------------------------------
(* C9: for every frame and every question that matches none of the rules   *)
(* (total/sum/spend/amount/inr, count, per-year with last-3),              *)
(* answer_csv_question returns the fixed "couldn't understand" string and  *)
(* does not raise; it returns a string for every question.                 *)

DirectAnswerWords == {"total", "sum", "spend", "spent", "amount", "inr", "count"}

PerYearWords == {"per year", "yearly", "each year"}
LastThreeWords == {"last 3", "past 3", "three year"}

MatchesNoRule(question) ==
    /\ ~HasAny(lower(question), DirectAnswerWords)
    /\ ~(HasAny(lower(question), PerYearWords) /\ HasAny(lower(question), LastThreeWords))

IsFallbackText(value) ==
    value = "I'm sorry, I couldn't understand your question. Please ask about totals, counts, or specify a column or type of transaction you want to analyze."

\* The claim as stated: for every frame
C9_AlwaysAString ==
    IsAnswer =>
        /\ ~result.raised
        /\ MatchesNoRule(result.question) => IsFallbackText(result.value)

\* The claim for the frames that have the column the amounts are read from
C9_AStringGivenTheAmountColumn ==
    (IsAnswer /\ "moneyValue" \in df.columns) =>
        /\ ~result.raised
        /\ MatchesNoRule(result.question) => IsFallbackText(result.value)

\* A question with a per-year phrase and no last-three phrase fell through
C9_Witness ==
    /\ IsAnswer /\ "moneyValue" \in df.columns
    /\ MatchesNoRule(result.question)
    /\ HasAny(lower(result.question), PerYearWords)
    /\ IsFallbackText(result.value)

---------------------------------------------------------------------------
(* C10: for a question holding total/sum/spend/amount/inr ("spent" read as *)
(* "spend"), the amount in the answer is the sum over all rows of the      *)
(* structured amount (credits and debits, what is not a number as 0) plus  *)
(* every two-decimal number written in the descriptions; the amounts       *)
(* -500, 5000, -199, -1000 give 3301.00.                                   *)

IsTotalWorded(question) ==
    HasAny(replace(lower(question), "spent", "spend"),
           {"total", "sum", "spend", "amount", "inr"})

\* The amount written in a total answer, in hundredths
ReportedAmount(value) ==
    LET prefix == "Based on your transaction records, the total money value is: **Rs"
        rest == SubSeq(value, Len(prefix) + 1, Len(value))
        stop == SetMin(Positions(rest, "*"))
    IN  IF StartsWith(value, prefix)
        THEN ParseDecimal(replace(SubSeq(rest, 1, stop - 1), ",", ""))
        ELSE Null

\* The two-decimal numbers written in the descriptions of the row pool
WrittenAmount(description) ==
    CASE description = Str("Refund 1,234.56 received") -> 123456
      [] description = Str("Electricity bill 12.50") -> 1250
      [] OTHER -> 0

\* The structured amounts of the row pool, what is not a number as 0
StructuredAmount(cell) ==
    CASE cell.k = "num" -> cell.v
      [] cell = Str("-199.00") -> -19900
      [] OTHER -> 0

RECURSIVE ExpectedTotal(_, _)
ExpectedTotal(frame, n) ==
    IF n = 0 THEN 0
    ELSE ExpectedTotal(frame, n - 1) + StructuredAmount(frame.rows[n].moneyValue)
             + (IF "mentionText" \in frame.columns
                THEN WrittenAmount(frame.rows[n].mentionText) ELSE 0)

FixtureAmounts == <<Num(-50000), Num(500000), Num(-19900), Num(-100000)>>

C10_TotalIsSumOfAllAmounts ==
    (IsAnswer /\ ~result.raised /\ IsTotalWorded(result.question)) =>
        /\ ReportedAmount(result.value) = Num(ExpectedTotal(df, Len(df.rows)))
        /\ Column(df.rows, "moneyValue") = FixtureAmounts
               => Contains(result.value, "Rs3,301.00")

\* The fixture's amounts were totalled on a question worded with "spent"
C10_Witness ==
    /\ IsAnswer /\ ~result.raised
    /\ Contains(lower(result.question), "spent")
    /\ Column(df.rows, "moneyValue") = FixtureAmounts
    /\ ReportedAmount(result.value) = Num(330100)

---------------------------------------------------------------------------
(* C11: every question holding a per-year phrase ("per year", "yearly",    *)
(* "each year") and a last-three phrase ("last 3", "past 3", "three year") *)
(* gets the per-year breakdown answer, also when it holds "spend",         *)
(* "spent", "total", "amount" or "count".                                  *)

AsksPerYear(question) ==
    /\ HasAny(lower(question), PerYearWords)
    /\ HasAny(lower(question), LastThreeWords)

IsBreakdownText(value) ==
    StartsWith(value, "Here is your spending per year for the last 3 years (from your CSV):\n\n")

C11_PerYearQuestionGetsBreakdown ==
    (/\ IsAnswer
     /\ RequiredOfAnswer \subseteq df.columns
     /\ AsksPerYear(result.question)) =>
        /\ ~result.raised
        /\ IsBreakdownText(result.value)

---------------------------------------------------------------------------
(* C13: a per-year question on a frame with a date column in which no row  *)
(* has a date that parses (an empty frame too) gets the "couldn't extract  *)
(* years" string, not a breakdown without buckets.                         *)

\* The question gets as far as the per-year rule
ReachesPerYearRule(question) ==
    /\ AsksPerYear(question)
    /\ ~IsTotalWorded(question)
    /\ ~Contains(lower(question), "count")

NoYearParses(frame) ==
    \A i \in 1..Len(frame.rows) : Unparseable(frame.rows[i].dateValue)

C13_NoYearsGivesExplanation ==
    (/\ IsAnswer
     /\ RequiredOfAnswer \subseteq df.columns
     /\ ReachesPerYearRule(result.question)
     /\ NoYearParses(df)) =>
        /\ ~result.raised
        /\ result.value = "Sorry, I couldn't extract years from your data. Please ensure 'dateValue' column is present and formatted as DD/MM/YY."

---------------------------------------------------------------------------
(* C14: no call changes the data frame the caller passed in: after any     *)
(* sequence of answer_csv_question calls, constructions and                *)
(* get_context_for_llm calls it has the rows, columns and values it had.   *)

C14_CallerFrameUntouched == [][df' = df]_vars

---------------------------------------------------------------------------
(* C12: a per-year breakdown has one bucket for each distinct year among   *)
(* the dates that parse, the 3 largest years at most, the most recent      *)
(* first, no year twice; the value of a bucket is the sum of the amounts   *)
(* and of the amounts written in the descriptions of the records dated in  *)
(* that year. The dates 01/06/25..04/06/25 give the one bucket 2025.       *)

RECURSIVE SplitLines(_)
SplitLines(s) ==
    IF Len(s) = 0 THEN <<>>
    ELSE LET breaks == Positions(s, "\n")
         IN  IF breaks = {} THEN <<s>>
             ELSE <<SubSeq(s, 1, SetMin(breaks) - 1)>>
                      \o SplitLines(SubSeq(s, SetMin(breaks) + 1, Len(s)))

\* The lines between the heading and the closing sentence of a breakdown
BucketLines(value) ==
    LET heading == "Here is your spending per year for the last 3 years (from your CSV):\n\n"
        closing == "\n\nLet me know if you want a different breakdown or more details!"
    IN  SplitLines(SubSeq(value, Len(heading) + 1, Len(value) - Len(closing)))

\* The year a bucket line starts with, written "2025" or "2025.0"
BucketYear(line) ==
    LET label == SubSeq(line, 1, SetMin(Positions(line, ":")) - 1)
        dots == Positions(label, ".")
    IN  IF dots = {} THEN ToNat(label) ELSE ToNat(SubSeq(label, 1, SetMin(dots) - 1))

\* The amount of a bucket line "<year>: **Rs<amount>** INR", in hundredths
BucketAmount(line) ==
    LET open == SetMin(Positions(line, "*")) + 1
        rest == SubSeq(line, open + 1 + Len("Rs"), Len(line))
        stop == SetMin(Positions(rest, "*"))
    IN  ParseDecimal(replace(SubSeq(rest, 1, stop - 1), ",", ""))

\* The years of the dates of the row pool; 0 for what is no date
YearOf(cell) ==
    CASE cell \in {Str("01/06/25"), Str("02/06/25"), Str("03/06/25"), Str("04/06/25"),
                   Str("05/07/25")} -> 2025
      [] cell = Str("29/02/24") -> 2024
      [] cell = Str("15/07/23") -> 2023
      [] cell = Str("31/12/26") -> 2026
      [] OTHER -> 0

YearsOf(frame) == {YearOf(frame.rows[i].dateValue) : i \in 1..Len(frame.rows)} \ {0}

RECURSIVE ExpectedYearTotal(_, _, _)
ExpectedYearTotal(frame, n, y) ==
    IF n = 0 THEN 0
    ELSE ExpectedYearTotal(frame, n - 1, y)
             + (IF YearOf(frame.rows[n].dateValue) = y
                THEN StructuredAmount(frame.rows[n].moneyValue)
                         + (IF "mentionText" \in frame.columns
                            THEN WrittenAmount(frame.rows[n].mentionText) ELSE 0)
                ELSE 0)

FixtureDates == <<Str("01/06/25"), Str("02/06/25"), Str("03/06/25"), Str("04/06/25")>>

C12_OneBucketPerRecentYear ==
    (IsAnswer /\ ~result.raised /\ IsBreakdownText(result.value)) =>
        LET lines == BucketLines(result.value)
            years == YearsOf(df)
            listed == {BucketYear(lines[i]) : i \in 1..Len(lines)}
        IN  /\ Len(lines) = (IF Cardinality(years) < 3 THEN Cardinality(years) ELSE 3)
            /\ listed \subseteq years
            /\ \A y \in years \ listed : \A z \in listed : y < z
            /\ \A i \in 1..Len(lines) : \A j \in 1..Len(lines) :
                  i < j => BucketYear(lines[i]) > BucketYear(lines[j])
            /\ \A i \in 1..Len(lines) :
                  BucketAmount(lines[i])
                      = Num(ExpectedYearTotal(df, Len(df.rows), BucketYear(lines[i])))
            /\ Column(df.rows, "dateValue") = FixtureDates
                   => Len(lines) = 1 /\ BucketYear(lines[1]) = 2025

\* A frame with dates of four years gave three buckets, 2026 first
C12_Witness ==
    /\ IsAnswer /\ ~result.raised /\ IsBreakdownText(result.value)
    /\ Cardinality(YearsOf(df)) = 4
    /\ Len(BucketLines(result.value)) = 3
    /\ BucketYear(BucketLines(result.value)[1]) = 2026
    /\ \E i \in 1..Len(df.rows) : WrittenAmount(df.rows[i].mentionText) # 0

---------------------------------------------------------------------------
(* C15: a payload of get_context_for_llm shares nothing with the analyzer: *)
(* when the caller writes into a returned payload, its statistics          *)
(* included, the statistics the analyzer holds stay what construction      *)
(* computed, and later calls return them.                                  *)

C15_StatisticsNeverChange ==
    [][analyzer.state = "ok" => analyzer'.statistics = analyzer.statistics]_vars

---------------------------------------------------------------------------
(* C16: for a description without "upi" the transaction type is the first  *)
(* group, in the order BILL_PAYMENT, SALARY, INTEREST, ATM, TRANSFER,      *)
(* INVESTMENT, REFUND, LOAN, with a keyword inside the lower-cased         *)
(* description, and OTHER exactly when no group has one.                   *)

TypeOrder == <<"BILL_PAYMENT", "SALARY", "INTEREST", "ATM", "TRANSFER",
               "INVESTMENT", "REFUND", "LOAN">>

\* The keywords the rules give the group `name`
GroupKeywords(rules, name) ==
    UNION {{rules[i].keywords[j] : j \in 1..Len(rules[i].keywords)} :
               i \in {h \in 1..Len(rules) : rules[h].name = name}}

\* The places in `order` of the groups with a keyword inside s
Matching(rules, order, s) ==
    {i \in 1..Len(order) : HasAny(s, GroupKeywords(rules, order[i]))}

C16_EarliestTypeGroupWins ==
    (~isna(labels) /\ ~isna(text) /\ ~Contains(lower(text.s), "upi")) =>
        LET matching == Matching(type_indicators, TypeOrder, lower(text.s))
        IN  /\ labels.transaction_type = "OTHER" <=> matching = {}
            /\ matching # {} => labels.transaction_type = TypeOrder[SetMin(matching)]

\* The later group's keyword comes first in the text, the earlier group wins
C16_Witness ==
    /\ ~isna(labels)
    /\ text = Str("loan bill payment")
    /\ Cardinality(Matching(type_indicators, TypeOrder, lower(text.s))) = 2
    /\ labels.transaction_type = "BILL_PAYMENT"

---------------------------------------------------------------------------
(* C17: for a description that is not missing the category is the first    *)
(* category, in the order PAYMENT, BILL, INCOME, SHOPPING, ENTERTAINMENT,  *)
(* INVESTMENT, WITHDRAWAL, SUBSCRIPTION, EMI, TRAVEL, with a keyword       *)
(* inside the lower-cased description, and OTHER exactly when none has     *)
(* one; it is a function of the description, whatever the type is.         *)

CategoryOrder == <<"PAYMENT", "BILL", "INCOME", "SHOPPING", "ENTERTAINMENT",
                   "INVESTMENT", "WITHDRAWAL", "SUBSCRIPTION", "EMI", "TRAVEL">>

C17_EarliestCategoryWins ==
    (~isna(labels) /\ ~isna(text)) =>
        LET matching == Matching(TRANSACTION_CATEGORIES, CategoryOrder, lower(text.s))
        IN  /\ labels.transaction_category = "OTHER" <=> matching = {}
            /\ matching # {} =>
                  labels.transaction_category = CategoryOrder[SetMin(matching)]

\* Typed SALARY by the type pass, categorised BILL: "water" comes before
\* "salary" in the category order
C17_Witness ==
    /\ ~isna(labels)
    /\ text = Str("Salary water")
    /\ labels.transaction_type = "SALARY"
    /\ labels.transaction_category = "BILL"

---------------------------------------------------------------------------
(* C18: in get_context_for_llm the filters add up, the time filter first,  *)
(* the category filter second, the ranking cut last: when the question     *)
(* asks for the last month and names a category, every sample record is of *)
(* the latest month and of a named category, and a ranking word leaves at  *)
(* most 5 of those.                                                        *)

\* The places in CategoryOrder of the categories named in the question
NamedCategories(question) ==
    {i \in 1..Len(CategoryOrder) : Contains(lower(question), lower(CategoryOrder[i]))}

AsksLastMonth(question) == Contains(lower(question), "last month")
AsksRecent(question) == Contains(lower(question), "recent")
AsksRanking(question) == HasAny(lower(question), {"highest", "top", "lowest"})

\* Every sample record is dated in the latest month of the analyzer's rows
SampleIsOfLatestMonth ==
    \A i \in 1..Len(result.value.relevant_transactions) :
        result.value.relevant_transactions[i].month_year = max_month(analyzer.df.rows)

C18_FiltersAddUp ==
    (/\ IsContext
     /\ AsksLastMonth(result.question) /\ ~AsksRecent(result.question)
     /\ NamedCategories(result.question) # {}) =>
        /\ SampleIsOfLatestMonth
        /\ \A i \in 1..Len(result.value.relevant_transactions) :
              \E c \in NamedCategories(result.question) :
                  result.value.relevant_transactions[i].transaction_category
                      = CategoryOrder[c]
        /\ AsksRanking(result.question) => Len(result.value.relevant_transactions) <= 5

---------------------------------------------------------------------------
(* C19: the signals are recognised one by one: when the question holds     *)
(* "last month", whatever else it holds ("recent" too), every sample       *)
(* record is of the latest month of the data.                              *)

C19_LastMonthAlwaysFilters ==
    (/\ IsContext
     /\ AsksLastMonth(result.question)
     /\ NamedCategories(result.question) = {}) =>
        SampleIsOfLatestMonth

---------------------------------------------------------------------------
(* C20: when the question names several categories, the sample is filtered *)
(* by the first of them in the declared order; when it names none, no      *)
(* category filter is applied.                                             *)

C20_FirstNamedCategoryFilters ==
    (IsContext /\ NamedCategories(result.question) # {}) =>
        \A i \in 1..Len(result.value.relevant_transactions) :
            result.value.relevant_transactions[i].transaction_category
                = CategoryOrder[SetMin(NamedCategories(result.question))]

---------------------------------------------------------------------------
(* C21: with "highest" or "top" in the question the sample is the 5        *)
(* records (or fewer) of the filtered set with the largest amounts,        *)
(* largest first; with "lowest" the 5 with the smallest, smallest first;   *)
(* records of equal amount stand in their order in the data, which also    *)
(* decides the cut at 5, also when the question holds "recent".            *)

AsksTop(question) == HasAny(lower(question), {"highest", "top"})

\* Row i of rows goes before row j in the ranking: by amount, then by place
\* in the data; the rows without an amount go last
RanksBefore(rows, i, j, top) ==
    LET a == rows[i].amount
        b == rows[j].amount
    IN  IF isna(a) \/ isna(b)
        THEN (~isna(a) /\ isna(b)) \/ (isna(a) /\ isna(b) /\ i < j)
        ELSE \/ (IF top THEN a.v > b.v ELSE a.v < b.v)
             \/ (a.v = b.v /\ i < j)

\* The place in rows of the row that is k-th in the ranking
Ranked(rows, k, top) ==
    CHOOSE i \in 1..Len(rows) :
        Cardinality({j \in 1..Len(rows) : RanksBefore(rows, j, i, top)}) = k - 1

C21_TiesKeepDataOrder ==
    (/\ IsContext
     /\ AsksRanking(result.question)
     /\ NamedCategories(result.question) = {}
     /\ ~AsksLastMonth(result.question)) =>
        LET rows == analyzer.df.rows
            sample == result.value.relevant_transactions
            top == AsksTop(result.question)
        IN  /\ Len(sample) = (IF Len(rows) < 5 THEN Len(rows) ELSE 5)
            /\ \A k \in 1..Len(sample) :
                  ~isna(rows[Ranked(rows, k, top)].amount) =>
                      sample[k] = [c \in analyzer.df.columns |->
                                       rows[Ranked(rows, k, top)][c]]

---------------------------------------------------------------------------
(* C22: weekend_avg and weekday_avg of the statistics are each the mean    *)
(* over the records with a date that parsed: a record without one (its     *)
(* is_weekend is false) counts in neither of them.                         *)

\* The means a and b are the same number, or both are missing
SameMean(a, b) ==
    IF isna(a) \/ isna(b) THEN isna(a) /\ isna(b)
    ELSE a.num * b.den = b.num * a.den

\* The mean of the amounts of the dated rows that fall, or do not fall, on
\* a Saturday or Sunday
DatedMean(rows, weekend) ==
    mean(Column(SelectSeq(rows, LAMBDA r :
                                    /\ ~isna(r.parsed_date)
                                    /\ (dayofweek(r.parsed_date) \in {5, 6}) = weekend),
                "amount"))

C22_AveragesOverDatedRecords ==
    analyzer.state = "ok" =>
        /\ SameMean(analyzer.statistics.weekend_vs_weekday.weekend_avg,
                    DatedMean(analyzer.df.rows, TRUE))
        /\ SameMean(analyzer.statistics.weekend_vs_weekday.weekday_avg,
                    DatedMean(analyzer.df.rows, FALSE))

====
